---------------------------- MODULE Spec2Model ----------------------------
(***************************************************************************)
(* Model of the Revit MCP bridge:                                          *)
(*   - the execute_code route handler (src/revit_mcp/code_execution.py),   *)
(*   - the Tool Gateway helpers and view tools (src/main.py,               *)
(*     src/tools/view_tools.py),                                           *)
(*   - the Response Formatter (src/tools/utils.py).                        *)
(* Each component has its own specification (SpecExec, SpecGw, SpecFmt)    *)
(* over the shared variables; a specification leaves the variables of the  *)
(* other components at their initial values.                               *)
(***************************************************************************)
EXTENDS Integers, Sequences, FiniteSets, TLC

VARIABLES
    \* ---- execute_code handler ----
    epc,        \* position in the handler: recv, start, exec, commit, except, done
    request,    \* the HTTP request: [body, m]
    code,       \* code_to_execute (a JSON value)
    tx,         \* the transaction t: none, started, committed, rolledback
    calls,      \* the sequence of Start / exec / Commit / RollBack calls made
    stdout,     \* the process-global sys.stdout: orig or captured
    script,     \* what the executed script did: [kind, out, err]
    excText,    \* str(exec_error) of the exception the inner handler caught
    ereply,     \* the response made by routes.make_response: [http, data]
    eexit,      \* running, returned (a response), raised (an exception left)
    \* ---- Formatter ----
    fpc,        \* in, out
    response,   \* the argument of format_response (a JSON value)
    formatted,  \* what format_response did: [kind, val, exc]
    \* ---- Gateway ----
    gpc,        \* idle, info, call, wait, got, done
    tool,       \* the tool invoked
    hasCtx,     \* whether a Context was passed
    requests,   \* the HTTP requests issued by this invocation, in order
    exchange,   \* the outcome of the HTTP exchange
    helperRet,  \* what revit_get / revit_image returned: [kind, val, exc]
    toolRet,    \* what the tool returned: [kind, val, exc]
    \* ---- model_info handler ----
    mpc,            \* position: doc, project, counts, warnings, levels, rooms,
                    \* views, links, compile, done
    doc,            \* revit.doc: [present, n]
    failed,         \* the Revit API calls that raise during this request
    project_info,   \* the local variables of the handler ...
    element_counts,
    total_elements,
    warnings,       \* [total, critical]
    levels_info,
    rooms,          \* [rooms_info, unplaced_rooms]
    views,          \* the counts of sheets and views
    linked_models,
    mreply,         \* the response made by routes.make_response: [http, data]
    \* ---- handler -> Gateway -> Formatter ----
    ppc,        \* handler, wire, gateway, format, done
    hreply,     \* the reply of the route handler: [http, data]
    wire,       \* the HTTP exchange the Gateway sees
    received,   \* what _revit_call returned: [kind, val, exc]
    rendered    \* what format_response did with it: [kind, val, exc]

evars == <<epc, request, code, tx, calls, stdout, script, excText, ereply, eexit>>
fvars == <<fpc, response, formatted>>
gvars == <<gpc, tool, hasCtx, requests, exchange, helperRet, toolRet>>
mvars == <<mpc, doc, failed, project_info, element_counts, total_elements, warnings,
           levels_info, rooms, views, linked_models, mreply>>
pvars == <<ppc, hreply, wire, received, rendered>>
vars == <<evars, fvars, gvars, mvars, pvars>>

-----------------------------------------------------------------------------
(* JSON / Python values.  Every value is a record of one shape so that any  *)
(* two values can be compared: t is the Python type, s the text of a str,   *)
(* i the number of an int or bool, m the items of a dict, b the bytes of an *)
(* Image.  A float carries its repr in s; a list carries its length in i    *)
(* and its items in m under the keys "0", "1", ...                          *)

EmptyMap == [k \in {} |-> 0]

\* Python str
Str(x) == [t |-> "str", s |-> x, i |-> 0, m |-> EmptyMap, b |-> <<>>]
\* Python int
Num(n) == [t |-> "int", s |-> "", i |-> n, m |-> EmptyMap, b |-> <<>>]
\* Python bool
Bool(b) == [t |-> "bool", s |-> "", i |-> IF b THEN 1 ELSE 0, m |-> EmptyMap, b |-> <<>>]
\* Python None
None == [t |-> "null", s |-> "", i |-> 0, m |-> EmptyMap, b |-> <<>>]
\* Python dict
Dict(mm) == [t |-> "dict", s |-> "", i |-> 0, m |-> mm, b |-> <<>>]
\* Python float, by its repr
Float(x) == [t |-> "float", s |-> x, i |-> 0, m |-> EmptyMap, b |-> <<>>]
\* Python list
List(items) ==
    [t |-> "list", s |-> "", i |-> Len(items),
     m |-> [k \in {ToString(j - 1) : j \in 1..Len(items)} |->
              items[CHOOSE j \in 1..Len(items) : ToString(j - 1) = k]],
     b |-> <<>>]
\* the items of a list value, in order
Items(v) == [j \in 1..v.i |-> v.m[ToString(j - 1)]]
\* mcp.server.fastmcp.Image(data=bytes, format=fmt)
Image(bytes, fmt) == [t |-> "Image", s |-> fmt, i |-> 0, m |-> EmptyMap, b |-> bytes]

\* Python truth value of v, as `if v:` and `not v` test it
Truthy(v) ==
    CASE v.t = "str" -> v.s # ""
      [] v.t = "int" -> v.i # 0
      [] v.t = "bool" -> v.i = 1
      [] v.t = "null" -> FALSE
      [] v.t = "dict" -> DOMAIN v.m # {}
      [] v.t = "list" -> v.i # 0
      [] v.t = "float" -> v.s # "0.0"
      [] OTHER -> TRUE

\* d.get(k, default) on the items mm of a dict
Get(mm, k, default) == IF k \in DOMAIN mm THEN mm[k] ELSE default

\* what a Python call did: it returned val, or it raised exc
Return(v) == [kind |-> "return", val |-> v, exc |-> ""]
Raise(e) == [kind |-> "raise", val |-> None, exc |-> e]
NoResult == [kind |-> "none", val |-> None, exc |-> ""]

-----------------------------------------------------------------------------
(* Text helpers *)

\* one character of str.lower()
LowerChar(c) ==
    CASE c = "A" -> "a" [] c = "B" -> "b" [] c = "C" -> "c" [] c = "D" -> "d"
      [] c = "E" -> "e" [] c = "F" -> "f" [] c = "G" -> "g" [] c = "H" -> "h"
      [] c = "I" -> "i" [] c = "J" -> "j" [] c = "K" -> "k" [] c = "L" -> "l"
      [] c = "M" -> "m" [] c = "N" -> "n" [] c = "O" -> "o" [] c = "P" -> "p"
      [] c = "Q" -> "q" [] c = "R" -> "r" [] c = "S" -> "s" [] c = "T" -> "t"
      [] c = "U" -> "u" [] c = "V" -> "v" [] c = "W" -> "w" [] c = "X" -> "x"
      [] c = "Y" -> "y" [] c = "Z" -> "z" [] OTHER -> c

RECURSIVE Lower(_)
\* str.lower()
Lower(x) ==
    IF x = "" THEN ""
    ELSE LowerChar(SubSeq(x, 1, 1)) \o Lower(SubSeq(x, 2, Len(x)))

\* `sub in x` on two str
Contains(x, sub) ==
    \E k \in 1..(Len(x) - Len(sub) + 1) : SubSeq(x, k, k + Len(sub) - 1) = sub

\* x.startswith(p)
StartsWith(x, p) == Len(x) >= Len(p) /\ SubSeq(x, 1, Len(p)) = p

-----------------------------------------------------------------------------
(* The execute_code route handler, src/revit_mcp/code_execution.py *)

\* values a request can give the "code" field
CodeValues ==
    {Str(""), None, Str("pass"), Str("print(1)"), Str("raise Exception('boom')"),
     Str("print(1); raise Exception()"), Str("import sys; sys.exit()")}
\* values a request can give the "description" field
DescriptionValues == {Str("demo")}

\* the mappings a request body can parse into
RequestMaps ==
    UNION { { f \in [D -> CodeValues \cup DescriptionValues] :
                /\ "code" \in D => f["code"] \in CodeValues
                /\ "description" \in D => f["description"] \in DescriptionValues }
            : D \in SUBSET {"code", "description"} }

\* request.data: text json.loads rejects, JSON text of a list, or JSON text
\* of a mapping
Requests ==
    {[body |-> "malformed", m |-> EmptyMap], [body |-> "list", m |-> EmptyMap]}
    \cup {[body |-> "map", m |-> mm] : mm \in RequestMaps}

\* texts an exception raised by t.Start, t.Commit or t.RollBack can carry
ErrTexts == {"host failure", "", "Unknown Encoding: cp1252"}
\* what exec(code_to_execute, namespace) does for script c: it finishes, it
\* raises an Exception, or it raises a BaseException that is no Exception
\* (SystemExit); `out` is the text printed before that
ScriptOutcome(c) ==
    CASE c = Str("pass") -> [kind |-> "ok", out |-> "", err |-> ""]
      [] c = Str("print(1)") -> [kind |-> "ok", out |-> "1\n", err |-> ""]
      [] c = Str("raise Exception('boom')") -> [kind |-> "exception", out |-> "", err |-> "boom"]
      [] c = Str("print(1); raise Exception()") -> [kind |-> "exception", out |-> "1\n", err |-> ""]
      [] OTHER -> [kind |-> "exit", out |-> "", err |-> ""]
NoScript == [kind |-> "none", out |-> "", err |-> ""]

\* routes.make_response(data=..., status=...)
MakeResponse(data, status) == [http |-> status, data |-> data]
NoReply == [http |-> 0, data |-> None]

\* t.HasStarted()
HasStarted(t) == t \in {"started", "committed", "rolledback"}
\* t.HasEnded()
HasEnded(t) == t \in {"committed", "rolledback"}

\* the message json.loads or data.get raises for a body that is no mapping
ParseError(body) ==
    IF body = "malformed" THEN "No JSON object could be decoded"
    ELSE "'list' object has no attribute 'get'"

\* the outer `except Exception as e` of the handler
OuterExcept(e) ==
    IF Contains(Lower(e), "encoding") \/ Contains(Lower(e), "codepage")
    THEN MakeResponse(
           Dict([error |-> Str("Encoding error - .NET CodePages encoding provider may not be registered"),
                 details |-> Str(e),
                 suggestion |-> Str("Ensure System.Text.Encoding.CodePages is registered at startup")]),
           500)
    ELSE MakeResponse(Dict([error |-> Str(e)]), 500)

\* (a variant that drops the sentinel)
SuccessOutputNoSentinel(out) == out
\* lines 92-96: the "output" of a success reply
SuccessOutput(out) ==
    IF out # "" THEN out ELSE "Code executed successfully (no output)"

\* traceback.format_exc() inside the inner handler
FormatExc(e) ==
    "Traceback (most recent call last):\n  File \"<string>\", line 1, in <module>\nException: " \o e

\* the reply of the inner `except Exception as exec_error`
ErrorReply(e, c) ==
    MakeResponse(
      Dict([status |-> Str("error"), error |-> Str(e),
            traceback |-> Str(FormatExc(e)), code_attempted |-> c]),
      500)

\* the success reply
SuccessReply(desc, out, c) ==
    MakeResponse(
      Dict([status |-> Str("success"), description |-> desc,
            output |-> Str(SuccessOutput(out)), code_executed |-> c]),
      200)

\* data.get("description", "Code execution")
Description == Get(request.m, "description", Str("Code execution"))

InitExec ==
    /\ epc = "recv"
    /\ request \in Requests
    /\ code = None
    /\ tx = "none"
    /\ calls = <<>>
    /\ stdout = "orig"
    /\ script = NoScript
    /\ excText = ""
    /\ ereply = NoReply
    /\ eexit = "running"

\* the handler returns `r`
ReturnReply(r) ==
    /\ ereply' = r
    /\ eexit' = "returned"
    /\ epc' = "done"

\* lines 31-52: parse the body, read code and description, reject no code
ParseRequest ==
    /\ epc = "recv"
    /\ IF request.body # "map"
       THEN /\ ReturnReply(OuterExcept(ParseError(request.body)))
            /\ UNCHANGED code
       ELSE /\ code' = Get(request.m, "code", Str(""))
            /\ IF ~Truthy(code')
               THEN ReturnReply(MakeResponse(Dict([error |-> Str("No code provided")]), 400))
               ELSE /\ epc' = "start"
                    /\ UNCHANGED <<ereply, eexit>>
    /\ UNCHANGED <<request, tx, calls, stdout, script, excText>>
    /\ UNCHANGED <<fvars, gvars, mvars, pvars>>

\* lines 55-56: t = DB.Transaction(...); t.Start()
StartTransaction ==
    /\ epc = "start"
    /\ calls' = Append(calls, "Start")
    /\ \/ /\ tx' = "started"
          /\ epc' = "exec"
          /\ UNCHANGED <<ereply, eexit>>
       \/ \E e \in ErrTexts :
            /\ ReturnReply(OuterExcept(e))
            /\ UNCHANGED tx
    /\ UNCHANGED <<request, code, stdout, script, excText>>
    /\ UNCHANGED <<fvars, gvars, mvars, pvars>>

\* lines 58-76: redirect sys.stdout and exec the script
ExecScript ==
    /\ epc = "exec"
    /\ calls' = Append(calls, "exec")
    /\ stdout' = "captured"
    /\ LET o == ScriptOutcome(code) IN
         /\ script' = o
         /\ CASE o.kind = "ok" ->
                   /\ epc' = "commit"
                   /\ UNCHANGED <<excText, eexit>>
              [] o.kind = "exception" ->
                   /\ epc' = "except"
                   /\ excText' = o.err
                   /\ UNCHANGED eexit
              [] OTHER ->
                   \* not an Exception: neither handler catches it
                   /\ epc' = "done"
                   /\ eexit' = "raised"
                   /\ UNCHANGED excText
    /\ UNCHANGED <<request, code, tx, ereply>>
    /\ UNCHANGED <<fvars, gvars, mvars, pvars>>

\* lines 78-99: restore sys.stdout, read the output, t.Commit(), reply
CommitStep ==
    /\ epc = "commit"
    /\ stdout' = "orig"
    /\ calls' = Append(calls, "Commit")
    /\ \/ /\ tx' = "committed"
          /\ ReturnReply(SuccessReply(Description, script.out, code))
          /\ UNCHANGED excText
       \/ \E e \in ErrTexts, after \in {"started", "rolledback"} :
            /\ tx' = after
            /\ excText' = e
            /\ epc' = "except"
            /\ UNCHANGED <<ereply, eexit>>
    /\ UNCHANGED <<request, code, script>>
    /\ UNCHANGED <<fvars, gvars, mvars, pvars>>

\* lines 101-123: restore sys.stdout, roll back if still active, reply
ExceptStep ==
    /\ epc = "except"
    /\ stdout' = "orig"
    /\ IF HasStarted(tx) /\ ~HasEnded(tx)
       THEN /\ calls' = Append(calls, "RollBack")
            /\ \/ /\ tx' = "rolledback"
                  /\ ReturnReply(ErrorReply(excText, code))
               \/ \E e \in ErrTexts, after \in {"started", "rolledback"} :
                    \* RollBack raised: the outer handler replies
                    /\ tx' = after
                    /\ ReturnReply(OuterExcept(e))
       ELSE /\ ReturnReply(ErrorReply(excText, code))
            /\ UNCHANGED <<tx, calls>>
    /\ UNCHANGED <<request, code, script, excText>>
    /\ UNCHANGED <<fvars, gvars, mvars, pvars>>

NextExec ==
    \/ ParseRequest
    \/ StartTransaction
    \/ ExecScript
    \/ CommitStep
    \/ ExceptStep

-----------------------------------------------------------------------------
(* More text helpers: code-point order, title(), replace(), str() *)

\* the characters of keys and texts, in code-point order
Alphabet == "\n \"'-/0123456789:<=>ABCDEFGHIJKLMNOPQRSTUVWXYZ\\_abcdefghijklmnopqrstuvwxyz{}"

\* the rank of character c in code-point order
CharRank(c) ==
    IF \E k \in 1..Len(Alphabet) : SubSeq(Alphabet, k, k) = c
    THEN CHOOSE k \in 1..Len(Alphabet) : SubSeq(Alphabet, k, k) = c
    ELSE 0

RECURSIVE StrLess(_, _)
\* a < b on two str
StrLess(a, b) ==
    IF b = "" THEN FALSE
    ELSE IF a = "" THEN TRUE
    ELSE LET ca == CharRank(SubSeq(a, 1, 1))
             cb == CharRank(SubSeq(b, 1, 1))
         IN  IF ca # cb THEN ca < cb
             ELSE StrLess(SubSeq(a, 2, Len(a)), SubSeq(b, 2, Len(b)))

RECURSIVE Sorted(_)
\* sorted(S) on a set of str
Sorted(S) ==
    IF S = {} THEN <<>>
    ELSE LET least == CHOOSE x \in S : \A y \in S \ {x} : StrLess(x, y)
         IN  <<least>> \o Sorted(S \ {least})

IsLower(c) == CharRank(c) >= CharRank("a") /\ CharRank(c) <= CharRank("z")
IsUpper(c) == CharRank(c) >= CharRank("A") /\ CharRank(c) <= CharRank("Z")

\* one character of str.upper()
UpperChar(c) ==
    IF IsLower(c)
    THEN LET k == CharRank(c) - CharRank("a") + CharRank("A") IN SubSeq(Alphabet, k, k)
    ELSE c

RECURSIVE TitleFrom(_, _)
\* str.title(), `inWord` telling whether the previous character was cased
TitleFrom(x, inWord) ==
    IF x = "" THEN ""
    ELSE LET c == SubSeq(x, 1, 1)
             cased == IsLower(c) \/ IsUpper(c)
         IN  (IF inWord THEN LowerChar(c) ELSE UpperChar(c))
             \o TitleFrom(SubSeq(x, 2, Len(x)), cased)

\* str.title()
Title(x) == TitleFrom(x, FALSE)

RECURSIVE ReplaceChar(_, _, _)
\* x.replace(old, new) for a one-character old
ReplaceChar(x, old, new) ==
    IF x = "" THEN ""
    ELSE (IF SubSeq(x, 1, 1) = old THEN new ELSE SubSeq(x, 1, 1))
         \o ReplaceChar(SubSeq(x, 2, Len(x)), old, new)

RECURSIVE ReprItems(_, _)
RECURSIVE ReprList(_)
RECURSIVE PyRepr(_)
\* repr(v)
PyRepr(v) ==
    CASE v.t = "str" -> "'" \o v.s \o "'"
      [] v.t = "int" -> ToString(v.i)
      [] v.t = "bool" -> IF v.i = 1 THEN "True" ELSE "False"
      [] v.t = "null" -> "None"
      [] v.t = "float" -> v.s
      [] v.t = "list" -> "[" \o ReprList(Items(v)) \o "]"
      [] OTHER -> "{" \o ReprItems(v.m, Sorted(DOMAIN v.m)) \o "}"

\* the items of repr(list)
ReprList(items) ==
    IF items = <<>> THEN ""
    ELSE PyRepr(Head(items)) \o (IF Len(items) > 1 THEN ", " ELSE "")
         \o ReprList(Tail(items))

\* the items of repr(dict); a dict of the model holds its keys in sorted order
ReprItems(mm, keys) ==
    IF keys = <<>> THEN ""
    ELSE "'" \o Head(keys) \o "': " \o PyRepr(mm[Head(keys)])
         \o (IF Len(keys) > 1 THEN ", " ELSE "")
         \o ReprItems(mm, Tail(keys))

\* str(v), which is also "{}".format(v)
PyStr(v) == IF v.t = "str" THEN v.s ELSE PyRepr(v)

RECURSIVE JoinStr(_, _)
\* sep.join(parts) on a sequence of str
JoinStr(sep, parts) ==
    IF parts = <<>> THEN ""
    ELSE IF Len(parts) = 1 THEN Head(parts)
    ELSE Head(parts) \o sep \o JoinStr(sep, Tail(parts))

\* "\n".join(parts) on a list of values: TypeError unless every item is a str
JoinLines(parts) ==
    IF \E k \in 1..Len(parts) : parts[k].t # "str"
    THEN Raise("TypeError")
    ELSE Return(Str(JoinStr("\n", [k \in 1..Len(parts) |-> parts[k].s])))

RECURSIVE JsonEscape(_)
\* the body of a JSON string literal
JsonEscape(x) ==
    IF x = "" THEN ""
    ELSE IF Len(x) = 1
    THEN (CASE x = "\n" -> "\\n" [] x = "\"" -> "\\\"" [] x = "\\" -> "\\\\" [] OTHER -> x)
    ELSE JsonEscape(SubSeq(x, 1, Len(x) \div 2))
         \o JsonEscape(SubSeq(x, Len(x) \div 2 + 1, Len(x)))

RECURSIVE JsonItems(_, _, _)
RECURSIVE JsonListItems(_, _)
RECURSIVE JsonDumps(_, _)
\* json.dumps(v, indent=2) at nesting `pad` (the indentation of the closing brace)
JsonDumps(v, pad) ==
    CASE v.t = "str" -> "\"" \o JsonEscape(v.s) \o "\""
      [] v.t = "int" -> ToString(v.i)
      [] v.t = "bool" -> IF v.i = 1 THEN "true" ELSE "false"
      [] v.t = "null" -> "null"
      [] v.t = "float" -> v.s
      [] v.t = "list" ->
           IF v.i = 0 THEN "[]"
           ELSE "[\n" \o JsonListItems(Items(v), pad \o "  ") \o "\n" \o pad \o "]"
      [] OTHER ->
           IF DOMAIN v.m = {} THEN "{}"
           ELSE "{\n" \o JsonItems(v.m, Sorted(DOMAIN v.m), pad \o "  ") \o "\n" \o pad \o "}"

\* the items of a JSON array, one per line
JsonListItems(items, pad) ==
    IF items = <<>> THEN ""
    ELSE pad \o JsonDumps(Head(items), pad)
         \o (IF Len(items) > 1 THEN ",\n" ELSE "")
         \o JsonListItems(Tail(items), pad)

\* the items of a JSON object, one per line
JsonItems(mm, keys, pad) ==
    IF keys = <<>> THEN ""
    ELSE pad \o "\"" \o JsonEscape(Head(keys)) \o "\": " \o JsonDumps(mm[Head(keys)], pad)
         \o (IF Len(keys) > 1 THEN ",\n" ELSE "")
         \o JsonItems(mm, Tail(keys), pad)

-----------------------------------------------------------------------------
(* The Response Formatter, src/tools/utils.py *)

\* (a variant that compares the status and health as the Reply holds them)
IsSuccessCaseSensitive(mm, status, health) ==
    \/ Get(mm, "status", Str("")).s = "success"
    \/ Get(mm, "status", Str("")).s = "active" /\ Get(mm, "health", Str("")).s = "healthy"
    \/ /\ Get(mm, "status", Str("")).s = "active"
       /\ "revit_available" \in DOMAIN mm
       /\ Truthy(mm["revit_available"])
\* lines 20-22: is_success, from the lowered status and health
IsSuccess(mm, status, health) ==
    \/ status = "success"
    \/ status = "active" /\ health = "healthy"
    \/ status = "active" /\ "revit_available" \in DOMAIN mm /\ Truthy(mm["revit_available"])

\* "{}: {}".format(field.replace("_", " ").title(), response[field])
TitledLine(mm, field) ==
    Str(Title(ReplaceChar(field, "_", " ")) \o ": " \o PyStr(mm[field]))

\* (a variant that leaves the Health line out)
StatusBlockNoHealth(mm) ==
    JoinLines(<< Str("=== REVIT STATUS ==="),
                 Str("Status: " \o PyStr(Get(mm, "status", Str("Unknown")))) >>)
\* lines 36-55: the status block
StatusBlock(mm) ==
    LET head == << Str("=== REVIT STATUS ==="),
                   Str("Status: " \o PyStr(Get(mm, "status", Str("Unknown")))),
                   Str("Health: " \o PyStr(Get(mm, "health", Str("Unknown")))) >>
        api == IF "api_name" \in DOMAIN mm
               THEN << Str("API: " \o PyStr(mm["api_name"])) >> ELSE <<>>
        document == IF "document_title" \in DOMAIN mm
                    THEN << Str("Document: " \o PyStr(mm["document_title"])) >> ELSE <<>>
        available == IF "revit_available" \in DOMAIN mm
                     THEN << Str("Revit Available: " \o PyStr(mm["revit_available"])) >>
                     ELSE <<>>
        known_fields == {"status", "health", "api_name", "document_title", "revit_available"}
        other_fields == Sorted(DOMAIN mm \ known_fields)
        others == IF other_fields # <<>>
                  THEN << Str("") >>
                       \o [k \in 1..Len(other_fields) |-> TitledLine(mm, other_fields[k])]
                  ELSE <<>>
    IN  JoinLines(head \o api \o document \o available \o others)

\* line 79: debug_fields
DebugFields == << "code_attempted", "endpoint", "request_data", "response_code" >>

\* lines 61-91: the error block
ErrorBlock(mm) ==
    LET error_msg == Get(mm, "error", Str("Unknown error occurred"))
        traceback_info == Get(mm, "traceback", Str(""))
        details == Get(mm, "details", Str(""))
        status == Get(mm, "status", Str("unknown"))
        head == << Str("=== ERROR DETAILS ==="),
                   Str("Status: " \o PyStr(status)),
                   Str("Error: " \o PyStr(error_msg)) >>
        det == IF Truthy(details) THEN << Str("Details: " \o PyStr(details)) >> ELSE <<>>
        tb == IF Truthy(traceback_info)
              THEN << Str("\n=== TRACEBACK ==="), traceback_info >> ELSE <<>>
        present == SelectSeq(DebugFields, LAMBDA f : f \in DOMAIN mm)
        debug == [k \in 1..Len(present) |-> TitledLine(mm, present[k])]
        response_keys == Sorted(DOMAIN mm \ {"error", "traceback", "details", "status",
                                             "code_attempted", "endpoint", "request_data",
                                             "response_code"})
        additional == IF response_keys # <<>>
                      THEN << Str("\n=== ADDITIONAL RESPONSE DATA ===") >>
                           \o [k \in 1..Len(response_keys) |->
                                 Str(response_keys[k] \o ": " \o PyStr(mm[response_keys[k]]))]
                      ELSE <<>>
    IN  JoinLines(head \o det \o tb \o debug \o additional)

\* (a variant whose last branch renders the failure block, not JSON)
SuccessContentNoDump(r, status) ==
    LET mm == r.m
    IN  IF "output" \in DOMAIN mm THEN Return(mm["output"])
        ELSE IF "message" \in DOMAIN mm THEN Return(mm["message"])
        ELSE IF "result" \in DOMAIN mm THEN Return(Str(PyStr(mm["result"])))
        ELSE IF "data" \in DOMAIN mm THEN Return(Str(PyStr(mm["data"])))
        ELSE IF status = "active" THEN StatusBlock(mm)
        ELSE ErrorBlock(mm)
\* lines 26-58: the content of a success reply
SuccessContent(r, status) ==
    LET mm == r.m
    IN  IF "output" \in DOMAIN mm THEN Return(mm["output"])
        ELSE IF "message" \in DOMAIN mm THEN Return(mm["message"])
        ELSE IF "result" \in DOMAIN mm THEN Return(Str(PyStr(mm["result"])))
        ELSE IF "data" \in DOMAIN mm THEN Return(Str(PyStr(mm["data"])))
        ELSE IF status = "active" THEN StatusBlock(mm)
        ELSE Return(Str(JsonDumps(r, "")))

\* format_response(response): what it returns, or the exception it raises
format_response(r) ==
    IF r.t = "dict"
    THEN LET statusV == Get(r.m, "status", Str(""))
             healthV == Get(r.m, "health", Str(""))
         IN  \* .lower() exists on str only
             IF statusV.t # "str" \/ healthV.t # "str" THEN Raise("AttributeError")
             ELSE LET status == Lower(statusV.s)
                      health == Lower(healthV.s)
                  IN  IF IsSuccess(r.m, status, health)
                      THEN SuccessContent(r, status)
                      ELSE ErrorBlock(r.m)
    ELSE Return(Str(PyStr(r)))

-----------------------------------------------------------------------------
(* The replies the Formatter is applied to *)

\* the most keys a mapping reply holds
MaxKeys == 3

\* the keys format_response reads, and two it does not know
FmtKeys ==
    {"status", "health", "revit_available", "output", "message", "result", "data",
     "api_name", "document_title", "error", "traceback", "details", "code_attempted",
     "endpoint", "request_data", "response_code", "extra_field", "Build"}

\* the values a reply can hold under key k
KeyValues(k) ==
    CASE k = "status" ->
           {Str("success"), Str("Success"), Str("active"), Str("error"), Str("weird"), Num(200)}
      [] k = "health" -> {Str("healthy"), Str("degraded"), None}
      [] k = "revit_available" -> {Bool(TRUE), Bool(FALSE)}
      [] k = "output" -> {Str("1\n"), Num(5)}
      [] k = "message" -> {Str("done")}
      [] k = "result" -> {Num(3)}
      [] k = "data" -> {Dict([n |-> Num(1)])}
      [] k = "api_name" -> {Str("revit_mcp")}
      [] k = "document_title" -> {Str("Tower")}
      [] k = "error" -> {Str("boom")}
      [] k = "traceback" -> {Str("tb"), Str(""), Num(1)}
      [] k = "details" -> {Str("det"), Str("")}
      [] k = "code_attempted" -> {Str("x = 1")}
      [] k = "endpoint" -> {Str("/execute_code/")}
      [] k = "request_data" -> {Dict([code |-> Str("x")])}
      [] k = "response_code" -> {Num(500)}
      [] OTHER -> {Str("e")}

RECURSIVE SubsetsUpTo(_, _)
\* the subsets of S with at most n elements
SubsetsUpTo(S, n) ==
    IF n = 0 \/ S = {} THEN {{}}
    ELSE LET x == CHOOSE x \in S : TRUE
         IN  SubsetsUpTo(S \ {x}, n)
             \cup {T \cup {x} : T \in SubsetsUpTo(S \ {x}, n - 1)}

RECURSIVE MapsOver(_)
\* the mappings with exactly the keys D
MapsOver(D) ==
    IF D = {} THEN {EmptyMap}
    ELSE LET k == CHOOSE k \in D : TRUE
         IN  { [x \in D |-> IF x = k THEN v ELSE f[x]] :
                 f \in MapsOver(D \ {k}), v \in KeyValues(k) }

\* the replies: strings, other JSON scalars, and mappings of at most MaxKeys keys
Replies ==
    {Str("Error: 503 - unavailable"), Str(""), Num(7), None}
    \cup {Dict(mm) : mm \in UNION {MapsOver(D) : D \in SubsetsUpTo(FmtKeys, MaxKeys)}}

InitFmt ==
    /\ fpc = "in"
    /\ response \in Replies
    /\ formatted = NoResult

\* a tool hands the reply to format_response
Format ==
    /\ fpc = "in"
    /\ formatted' = format_response(response)
    /\ fpc' = "out"
    /\ UNCHANGED response
    /\ UNCHANGED <<evars, gvars, mvars, pvars>>

NextFmt == Format

-----------------------------------------------------------------------------
(* The model_info route handler, src/revit_mcp/model_info.py *)

\* the most levels, rooms and links a document of the model holds
MaxElems == 2
\* the most Revit API calls that raise while one request is handled
MaxFailures == 2

RECURSIVE LStrip(_)
\* the text without its leading whitespace
LStrip(x) ==
    IF x # "" /\ SubSeq(x, 1, 1) \in {" ", "\n", "\t"}
    THEN LStrip(SubSeq(x, 2, Len(x)))
    ELSE x

RECURSIVE RStrip(_)
\* the text without its trailing whitespace
RStrip(x) ==
    IF x # "" /\ SubSeq(x, Len(x), Len(x)) \in {" ", "\n", "\t"}
    THEN RStrip(SubSeq(x, 1, Len(x) - 1))
    ELSE x

\* text.strip()
Strip(x) == RStrip(LStrip(x))

\* src/revit_mcp/utils.py normalize_string(text)
normalize_string(text) ==
    IF text.t = "null" THEN Str("Unnamed")
    ELSE IF text.t = "str" THEN Str(Strip(text.s))
    ELSE Str(Strip(PyStr(text)))

\* round(x, 2) of a non-negative number given in thousandths, as a float
Round2(milli) ==
    LET c == (milli + 5) \div 10
        frac == c % 100
    IN  Float(ToString(c \div 100) \o "."
              \o (IF frac % 10 = 0 THEN ToString(frac \div 10)
                  ELSE IF frac < 10 THEN "0" \o ToString(frac)
                  ELSE ToString(frac)))

\* the names of element_categories
ElementCategories ==
    << "Walls", "Floors", "Ceilings", "Roofs", "Doors", "Windows", "Stairs",
       "Railings", "Columns", "Structural_Framing", "Furniture",
       "Lighting_Fixtures", "Plumbing_Fixtures" >>

\* the Revit API calls of the handler that can raise, for a document with n
\* levels, n rooms and n links
FailPoints(n) ==
    {"RevitProjectInfo", "Title", "GetWarnings", "GetSeverity",
     "Levels", "Rooms", "Views", "Links"}
    \cup {"Count:" \o ElementCategories[k] : k \in 1..Len(ElementCategories)}
    \cup UNION { {"Name:" \o ToString(k), "Elevation:" \o ToString(k),
                  "LookupParameter:" \o ToString(k), "LevelId:" \o ToString(k),
                  "Area:" \o ToString(k), "Link:" \o ToString(k)} : k \in 1..n }

\* revit.doc: no active document, or a document with n levels, rooms and links
NoDoc == [present |-> FALSE, n |-> 0]
Docs == {NoDoc} \cup {[present |-> TRUE, n |-> k] : k \in 0..MaxElems}

\* what the document holds -----------------------------------------------

\* doc.Title
DocTitle == Str("Tower.rvt ")
\* RevitProjectInfo(doc).name, .number, .client_name
ProjectName == Str(" Tower A")
ProjectNumber == Num(17)
ProjectClient == None
\* GetElementCount() of a category: its position in the list
CategoryCount(name) ==
    CHOOSE k \in 1..Len(ElementCategories) : ElementCategories[k] = name
\* len(doc.GetWarnings()) and the warnings of severity Error among them
WarningsCount == 3
CriticalCount == 1
\* the collector yields the levels from the top one down: level k of n
LevelAt(j, n) == n + 1 - j
LevelName(k) == Str("Level " \o ToString(k))
\* level.Elevation, in thousandths
LevelElevation(k) == (k - 1) * 3048
\* the Name parameter of room k: every third room has none
RoomName(k) == IF k % 3 = 0 THEN Str("Unnamed Room") ELSE Str("Room " \o ToString(k))
RoomNumber(k) == Str(ToString(100 + k))
\* room.Area, in thousandths: the rooms of even number are not placed
RoomArea(k) == IF k % 2 = 1 THEN 12346 * k ELSE 0
\* the name and load status of link k
LinkName(k) == Str("Site " \o ToString(k) \o ".rvt")
LinkLoaded(k) == k % 2 = 1
\* sheets and views of the document
ViewCounts ==
    [sheets_count |-> 2, views_count |-> 5, floor_plans |-> 2, elevations |-> 1,
     sections |-> 1, threed_views |-> 1, schedules |-> 0]
NoViewCounts ==
    [sheets_count |-> 0, views_count |-> 0, floor_plans |-> 0, elevations |-> 0,
     sections |-> 0, threed_views |-> 0, schedules |-> 0]

\* the sections of the handler -------------------------------------------

\* lines 41-56: project_info, or the exception of the fallback's doc.Title
ProjectInfo(F) ==
    IF "RevitProjectInfo" \notin F /\ "Title" \notin F
    THEN Return(Dict([name |-> normalize_string(ProjectName),
                      number |-> normalize_string(ProjectNumber),
                      client |-> normalize_string(ProjectClient),
                      file_name |-> normalize_string(DocTitle)]))
    ELSE IF "Title" \in F THEN Raise("The document is no longer valid")
    ELSE Return(Dict([name |-> normalize_string(DocTitle),
                      number |-> Str("Not Set"),
                      client |-> Str("Not Set"),
                      file_name |-> normalize_string(DocTitle)]))

\* lines 79-89: element_counts[name] of one category
CountOf(name, F) == IF ("Count:" \o name) \in F THEN 0 ELSE CategoryCount(name)

RECURSIVE TotalElements(_, _)
\* lines 76-89: total_elements after the loop over the categories
TotalElements(names, F) ==
    IF names = <<>> THEN 0
    ELSE (IF ("Count:" \o Head(names)) \in F THEN 0 ELSE CategoryCount(Head(names)))
         + TotalElements(Tail(names), F)

\* lines 75-89: element_counts after the loop
ElementCounts(F) ==
    [name \in {ElementCategories[k] : k \in 1..Len(ElementCategories)} |->
       Num(CountOf(name, F))]

\* lines 92-101: warnings_count and critical_warnings
Warnings(F) ==
    IF "GetWarnings" \in F \/ "GetSeverity" \in F
    THEN [total |-> 0, critical |-> 0]
    ELSE [total |-> WarningsCount, critical |-> CriticalCount]

\* lines 113-128: the entry of one level
LevelEntry(k, F) ==
    IF ("Elevation:" \o ToString(k)) \in F
    THEN [name |-> normalize_string(LevelName(k)), known |-> FALSE, key |-> 0]
    ELSE [name |-> normalize_string(LevelName(k)), known |-> TRUE,
          key |-> LevelElevation(k)]

RECURSIVE InsertByKey(_, _)
\* one step of the stable sort: e goes after the entries whose key is <= its own
InsertByKey(sorted, e) ==
    IF sorted = <<>> THEN << e >>
    ELSE IF Head(sorted).key <= e.key
    THEN << Head(sorted) >> \o InsertByKey(Tail(sorted), e)
    ELSE << e >> \o sorted

RECURSIVE SortByKey(_)
\* lines 131-138: levels_info.sort(key=elevation, or 0 where it is unknown)
SortByKey(entries) ==
    IF entries = <<>> THEN <<>>
    ELSE InsertByKey(SortByKey(SubSeq(entries, 1, Len(entries) - 1)),
                     entries[Len(entries)])

\* lines 104-145: levels_info
LevelsInfo(n, F) ==
    IF "Levels" \in F \/ \E k \in 1..n : ("Name:" \o ToString(k)) \in F
    THEN <<>>
    ELSE LET sorted == SortByKey([j \in 1..n |-> LevelEntry(LevelAt(j, n), F)])
         IN  [j \in 1..n |->
                Dict([name |-> sorted[j].name,
                      elevation |-> IF sorted[j].known THEN Round2(sorted[j].key)
                                    ELSE Str("Unknown")])]

\* (a variant that counts a room as unplaced before it reads its parameters)
ProcessRoomCountingFirst(acc, k, F) ==
    LET id == ToString(k)
        is_placed == ("Area:" \o id) \notin F /\ RoomArea(k) > 0
        unplaced == IF is_placed THEN acc.unplaced_rooms ELSE acc.unplaced_rooms + 1
        base == [name |-> normalize_string(RoomName(k)),
                 number |-> normalize_string(RoomNumber(k)),
                 level |-> normalize_string(IF ("LevelId:" \o id) \in F
                                            THEN Str("Unknown Level") ELSE LevelName(1)),
                 is_placed |-> Bool(is_placed)]
    IN  IF ("LookupParameter:" \o id) \in F
        THEN [rooms_info |-> acc.rooms_info, unplaced_rooms |-> unplaced]
        ELSE [rooms_info |->
                Append(acc.rooms_info,
                       IF is_placed
                       THEN Dict([x \in DOMAIN base \cup {"area"} |->
                                    IF x = "area" THEN Round2(RoomArea(k)) ELSE base[x]])
                       ELSE Dict(base)),
              unplaced_rooms |-> unplaced]
\* lines 159-213: one pass of the loop over the rooms; acc holds rooms_info
\* and unplaced_rooms
ProcessRoom(acc, k, F) ==
    LET id == ToString(k)
        is_placed == ("Area:" \o id) \notin F /\ RoomArea(k) > 0
        base == [name |-> normalize_string(RoomName(k)),
                 number |-> normalize_string(RoomNumber(k)),
                 level |-> normalize_string(IF ("LevelId:" \o id) \in F
                                            THEN Str("Unknown Level") ELSE LevelName(1)),
                 is_placed |-> Bool(is_placed)]
    IN  IF ("LookupParameter:" \o id) \in F
        THEN acc
        ELSE [rooms_info |->
                Append(acc.rooms_info,
                       IF is_placed
                       THEN Dict([x \in DOMAIN base \cup {"area"} |->
                                    IF x = "area" THEN Round2(RoomArea(k)) ELSE base[x]])
                       ELSE Dict(base)),
              unplaced_rooms |-> IF is_placed THEN acc.unplaced_rooms
                                 ELSE acc.unplaced_rooms + 1]

RECURSIVE RoomsLoop(_, _, _, _)
\* lines 159-213: the loop over rooms k..n
RoomsLoop(acc, k, n, F) ==
    IF k > n THEN acc ELSE RoomsLoop(ProcessRoom(acc, k, F), k + 1, n, F)

\* lines 148-218: rooms_info and unplaced_rooms
Rooms(n, F) ==
    IF "Rooms" \in F THEN [rooms_info |-> <<>>, unplaced_rooms |-> 0]
    ELSE RoomsLoop([rooms_info |-> <<>>, unplaced_rooms |-> 0], 1, n, F)

\* lines 221-267: the counts of sheets and views
Views(F) == IF "Views" \in F THEN NoViewCounts ELSE ViewCounts

RECURSIVE LinksLoop(_, _, _, _)
\* lines 275-305: the loop over the link instances k..n
LinksLoop(acc, k, n, F) ==
    IF k > n THEN acc
    ELSE LinksLoop(IF ("Link:" \o ToString(k)) \in F THEN acc
                   ELSE Append(acc,
                               Dict([name |-> normalize_string(LinkName(k)),
                                     status |-> Str(IF LinkLoaded(k) THEN "Loaded"
                                                    ELSE "NotLoaded"),
                                     is_loaded |-> Bool(LinkLoaded(k)),
                                     is_pinned |-> Bool(FALSE)])),
                   k + 1, n, F)

\* lines 270-311: linked_models
LinkedModels(n, F) == IF "Links" \in F THEN <<>> ELSE LinksLoop(<<>>, 1, n, F)

\* lines 314-343: model_data
ModelData(pi, counts, total, w, levels, rm, v, links) ==
    Dict([status |-> Str("success"),
          project_info |-> pi,
          element_summary |->
            Dict([total_elements |-> Num(total), by_category |-> Dict(counts)]),
          model_health |->
            Dict([total_warnings |-> Num(w.total),
                  critical_warnings |-> Num(w.critical),
                  unplaced_rooms |-> Num(rm.unplaced_rooms)]),
          spatial_organization |->
            Dict([levels |-> List(levels),
                  rooms |-> List(rm.rooms_info),
                  room_count |-> Num(Len(rm.rooms_info))]),
          documentation |->
            Dict([total_views |-> Num(v.views_count),
                  view_breakdown |->
                    Dict([x \in {"floor_plans", "elevations", "sections",
                                 "3d_views", "schedules"} |->
                            Num(IF x = "3d_views" THEN v.threed_views ELSE v[x])]),
                  sheets_count |-> Num(v.sheets_count)]),
          linked_models |->
            Dict([count |-> Num(Len(links)), models |-> List(links)])])

\* the state before the handler has assigned a variable
Unset == None
NoRooms == [rooms_info |-> <<>>, unplaced_rooms |-> 0]
NoWarnings == [total |-> 0, critical |-> 0]

InitMi ==
    /\ mpc = "doc"
    /\ doc \in Docs
    /\ failed \in (IF doc.present THEN SubsetsUpTo(FailPoints(doc.n), MaxFailures) ELSE {{}})
    /\ project_info = Unset
    /\ element_counts = EmptyMap
    /\ total_elements = 0
    /\ warnings = NoWarnings
    /\ levels_info = <<>>
    /\ rooms = NoRooms
    /\ views = NoViewCounts
    /\ linked_models = <<>>
    /\ mreply = NoReply

\* lines 34-38: doc = revit.doc; 503 when there is none
GetDoc ==
    /\ mpc = "doc"
    /\ IF ~doc.present
       THEN /\ mreply' = MakeResponse(Dict([error |-> Str("No active Revit document")]), 503)
            /\ mpc' = "done"
       ELSE /\ mpc' = "project"
            /\ UNCHANGED mreply
    /\ UNCHANGED <<doc, failed, project_info, element_counts, total_elements, warnings,
                   levels_info, rooms, views, linked_models>>
    /\ UNCHANGED <<evars, fvars, gvars, pvars>>

\* lines 41-56, and 347-354 when the fallback raises
GetProjectInfo ==
    /\ mpc = "project"
    /\ LET r == ProjectInfo(failed) IN
         IF r.kind = "raise"
         THEN /\ mreply' = MakeResponse(
                             Dict([error |-> Str("Failed to retrieve model information: "
                                                 \o r.exc)]),
                             500)
              /\ mpc' = "done"
              /\ UNCHANGED project_info
         ELSE /\ project_info' = r.val
              /\ mpc' = "counts"
              /\ UNCHANGED mreply
    /\ UNCHANGED <<doc, failed, element_counts, total_elements, warnings,
                   levels_info, rooms, views, linked_models>>
    /\ UNCHANGED <<evars, fvars, gvars, pvars>>

\* lines 59-89
CountElements ==
    /\ mpc = "counts"
    /\ element_counts' = ElementCounts(failed)
    /\ total_elements' = TotalElements(ElementCategories, failed)
    /\ mpc' = "warnings"
    /\ UNCHANGED <<doc, failed, project_info, warnings, levels_info, rooms, views,
                   linked_models, mreply>>
    /\ UNCHANGED <<evars, fvars, gvars, pvars>>

\* lines 92-101
GetWarnings ==
    /\ mpc = "warnings"
    /\ warnings' = Warnings(failed)
    /\ mpc' = "levels"
    /\ UNCHANGED <<doc, failed, project_info, element_counts, total_elements,
                   levels_info, rooms, views, linked_models, mreply>>
    /\ UNCHANGED <<evars, fvars, gvars, pvars>>

\* lines 104-145
GetLevels ==
    /\ mpc = "levels"
    /\ levels_info' = LevelsInfo(doc.n, failed)
    /\ mpc' = "rooms"
    /\ UNCHANGED <<doc, failed, project_info, element_counts, total_elements,
                   warnings, rooms, views, linked_models, mreply>>
    /\ UNCHANGED <<evars, fvars, gvars, pvars>>

\* lines 148-218
GetRooms ==
    /\ mpc = "rooms"
    /\ rooms' = Rooms(doc.n, failed)
    /\ mpc' = "views"
    /\ UNCHANGED <<doc, failed, project_info, element_counts, total_elements,
                   warnings, levels_info, views, linked_models, mreply>>
    /\ UNCHANGED <<evars, fvars, gvars, pvars>>

\* lines 221-267
GetViews ==
    /\ mpc = "views"
    /\ views' = Views(failed)
    /\ mpc' = "links"
    /\ UNCHANGED <<doc, failed, project_info, element_counts, total_elements,
                   warnings, levels_info, rooms, linked_models, mreply>>
    /\ UNCHANGED <<evars, fvars, gvars, pvars>>

\* lines 270-311
GetLinkedModels ==
    /\ mpc = "links"
    /\ linked_models' = LinkedModels(doc.n, failed)
    /\ mpc' = "compile"
    /\ UNCHANGED <<doc, failed, project_info, element_counts, total_elements,
                   warnings, levels_info, rooms, views, mreply>>
    /\ UNCHANGED <<evars, fvars, gvars, pvars>>

\* lines 314-345
CompileResponse ==
    /\ mpc = "compile"
    /\ mreply' = MakeResponse(ModelData(project_info, element_counts, total_elements,
                                        warnings, levels_info, rooms, views,
                                        linked_models),
                              200)
    /\ mpc' = "done"
    /\ UNCHANGED <<doc, failed, project_info, element_counts, total_elements,
                   warnings, levels_info, rooms, views, linked_models>>
    /\ UNCHANGED <<evars, fvars, gvars, pvars>>

NextMi ==
    \/ GetDoc
    \/ GetProjectInfo
    \/ CountElements
    \/ GetWarnings
    \/ GetLevels
    \/ GetRooms
    \/ GetViews
    \/ GetLinkedModels
    \/ CompileResponse

-----------------------------------------------------------------------------
(* The replies the two route handlers can make *)

\* every reply of execute_code: the outer handler's, the rejection, the inner
\* handler's and the success reply
ExecReplies ==
    {OuterExcept(ParseError(b)) : b \in {"malformed", "list"}}
    \cup {MakeResponse(Dict([error |-> Str("No code provided")]), 400)}
    \cup {OuterExcept(e) : e \in ErrTexts}
    \cup UNION { {ErrorReply(e, c) : e \in ErrTexts \cup {ScriptOutcome(c).err}}
                 : c \in {c \in CodeValues : Truthy(c)} }
    \cup {SuccessReply(d, ScriptOutcome(c).out, c) :
            d \in DescriptionValues \cup {Str("Code execution")},
            c \in {c \in CodeValues : Truthy(c) /\ ScriptOutcome(c).kind = "ok"}}

\* the reply of get_model_info for document d when the calls F raise
ModelInfoReply(d, F) ==
    IF ~d.present
    THEN MakeResponse(Dict([error |-> Str("No active Revit document")]), 503)
    ELSE IF ProjectInfo(F).kind = "raise"
    THEN MakeResponse(Dict([error |-> Str("Failed to retrieve model information: "
                                          \o ProjectInfo(F).exc)]), 500)
    ELSE MakeResponse(ModelData(ProjectInfo(F).val, ElementCounts(F),
                                TotalElements(ElementCategories, F), Warnings(F),
                                LevelsInfo(d.n, F), Rooms(d.n, F), Views(F),
                                LinkedModels(d.n, F)),
                      200)

\* the replies of get_model_info with no call or one call raising
ModelInfoReplies ==
    UNION { {ModelInfoReply(d, {})} \cup {ModelInfoReply(d, {x}) : x \in FailPoints(d.n)}
            : d \in Docs }

HandlerReplies == ExecReplies \cup ModelInfoReplies

-----------------------------------------------------------------------------
(* JSON on the wire and base64, as the Gateway's library calls compute them *)

RECURSIVE JsonTextItems(_, _)
RECURSIVE JsonTextList(_)
RECURSIVE JsonText(_)
\* json.dumps(v): the body a handler's reply travels as
JsonText(v) ==
    CASE v.t = "str" -> "\"" \o JsonEscape(v.s) \o "\""
      [] v.t = "int" -> ToString(v.i)
      [] v.t = "bool" -> IF v.i = 1 THEN "true" ELSE "false"
      [] v.t = "null" -> "null"
      [] v.t = "float" -> v.s
      [] v.t = "list" -> "[" \o JsonTextList(Items(v)) \o "]"
      [] OTHER -> "{" \o JsonTextItems(v.m, Sorted(DOMAIN v.m)) \o "}"

\* the items of a JSON array on one line
JsonTextList(items) ==
    IF items = <<>> THEN ""
    ELSE JsonText(Head(items)) \o (IF Len(items) > 1 THEN ", " ELSE "")
         \o JsonTextList(Tail(items))

\* the items of a JSON object on one line
JsonTextItems(mm, keys) ==
    IF keys = <<>> THEN ""
    ELSE "\"" \o JsonEscape(Head(keys)) \o "\": " \o JsonText(mm[Head(keys)])
         \o (IF Len(keys) > 1 THEN ", " ELSE "")
         \o JsonTextItems(mm, Tail(keys))

\* the base64 alphabet: the character of 6-bit value k is at position k + 1
B64Alphabet == "ABCDEFGHIJKLMNOPQRSTUVWXYZabcdefghijklmnopqrstuvwxyz0123456789+/"

\* table_a2b_base64: the 6-bit value of c, 64 for a character outside the alphabet
B64Value(c) ==
    IF \E k \in 1..Len(B64Alphabet) : SubSeq(B64Alphabet, k, k) = c
    THEN (CHOOSE k \in 1..Len(B64Alphabet) : SubSeq(B64Alphabet, k, k) = c) - 1
    ELSE 64

RECURSIVE B64Scan(_, _, _, _, _)
\* binascii.a2b_base64 (not strict) on the rest x of the text, with the
\* position in the quad, the bits left over, the pads seen and the bytes out
B64Scan(x, quad_pos, leftchar, pads, out) ==
    IF x = ""
    THEN IF quad_pos = 0 THEN Return(Image(out, "bytes"))
         ELSE IF quad_pos = 1
         THEN Raise("Invalid base64-encoded string: number of data characters ("
                    \o ToString((Len(out) \div 3) * 4 + 1)
                    \o ") cannot be 1 more than a multiple of 4")
         ELSE Raise("Incorrect padding")
    ELSE LET c == SubSeq(x, 1, 1)
             rest == SubSeq(x, 2, Len(x))
             v == B64Value(c)
         IN  IF c = "="
             THEN IF quad_pos >= 2 /\ quad_pos + pads + 1 >= 4
                  THEN Return(Image(out, "bytes"))
                  ELSE B64Scan(rest, quad_pos, leftchar,
                               IF quad_pos >= 2 THEN pads + 1 ELSE pads, out)
             ELSE IF v >= 64 THEN B64Scan(rest, quad_pos, leftchar, pads, out)
             ELSE CASE quad_pos = 0 -> B64Scan(rest, 1, v, 0, out)
                    [] quad_pos = 1 ->
                         B64Scan(rest, 2, v % 16, 0, Append(out, leftchar * 4 + v \div 16))
                    [] quad_pos = 2 ->
                         B64Scan(rest, 3, v % 4, 0, Append(out, leftchar * 16 + v \div 4))
                    [] OTHER ->
                         B64Scan(rest, 0, 0, 0, Append(out, leftchar * 64 + v))

\* base64.b64decode(v): the bytes, or the exception it raises
B64Decode(v) ==
    IF v.t # "str"
    THEN Raise("argument should be a bytes-like object or ASCII string, not '" \o v.t \o "'")
    ELSE LET r == B64Scan(v.s, 0, 0, 0, <<>>)
         IN  IF r.kind = "raise" THEN r ELSE Return(r.val)

-----------------------------------------------------------------------------
(* The Tool Gateway, src/main.py, and the view tools, src/tools/view_tools.py *)

\* the longest base64 text an image reply carries
MaxB64Len == 4

\* characters of a base64 text: data characters, the pad, one outside the alphabet
B64Chars == {"a", "G", "=", "!"}

RECURSIVE TextsUpTo(_)
\* the texts over B64Chars of at most n characters
TextsUpTo(n) ==
    IF n = 0 THEN {""}
    ELSE TextsUpTo(n - 1) \cup {x \o c : x \in TextsUpTo(n - 1), c \in B64Chars}

\* the JSON values a host reply can carry
WireValues ==
    {Dict([image_data |-> Str(x)]) : x \in TextsUpTo(MaxB64Len)}
    \cup { Dict([image_data |-> Num(1)]),
           Dict([views |-> Str("Level 1")]),
           Dict([status |-> Str("success"), output |-> Str("1\n")]),
           Dict([status |-> Str("error"), error |-> Str("boom"), traceback |-> Str("tb")]),
           Dict([error |-> Str("No active document")]),
           Num(7), Str("x"), None }
    \cup {r.data : r \in HandlerReplies}

\* each JSON body with the value it parses into
WirePairs == {<<JsonText(v), v>> : v \in WireValues}

\* the bodies a response can carry: JSON texts and texts that are no JSON
BodyTexts == {p[1] : p \in WirePairs} \cup {"unavailable", ""}

\* response.json(): the parsed body, or the JSONDecodeError it raises
JsonLoads(text) ==
    IF \E p \in WirePairs : p[1] = text
    THEN Return((CHOOSE p \in WirePairs : p[1] = text)[2])
    ELSE Raise("Expecting value: line 1 column 1 (char 0)")

\* the outcomes of one HTTP exchange: the transport raises, or a response
Exchanges ==
    {[kind |-> "exc", status |-> 0, text |-> e] : e \in {"All connection attempts failed", ""}}
    \cup {[kind |-> "resp", status |-> c, text |-> x] : c \in {200, 500, 503}, x \in BodyTexts}
NoExchange == [kind |-> "none", status |-> 0, text |-> ""]

\* (a variant that parses the body whatever the status code is)
RevitCallAnyStatus(x) ==
    IF x.kind = "exc" THEN Return(Str("Error: " \o x.text))
    ELSE LET j == JsonLoads(x.text)
         IN  IF j.kind = "raise" THEN Return(Str("Error: " \o j.exc)) ELSE j
\* (a variant that lets the transport's exception and a bad body propagate)
RevitCallRaising(x) ==
    IF x.kind = "exc" THEN Raise(x.text)
    ELSE IF x.status = 200 THEN JsonLoads(x.text)
    ELSE Return(Str("Error: " \o ToString(x.status) \o " - " \o x.text))
\* lines 54-65 of src/main.py: what _revit_call returns for exchange x
RevitCall(x) ==
    IF x.kind = "exc" THEN Return(Str("Error: " \o x.text))
    ELSE IF x.status = 200
    THEN LET j == JsonLoads(x.text)
         IN  IF j.kind = "raise" THEN Return(Str("Error: " \o j.exc)) ELSE j
    ELSE Return(Str("Error: " \o ToString(x.status) \o " - " \o x.text))

\* data["image_data"]: the item, or the TypeError / KeyError it raises
ImageData(data) ==
    IF data.t = "dict"
    THEN IF "image_data" \in DOMAIN data.m THEN Return(data.m["image_data"])
         ELSE Raise("'image_data'")
    ELSE IF data.t = "str" THEN Raise("string indices must be integers, not 'str'")
    ELSE Raise("'" \o data.t \o "' object is not subscriptable")

\* (a variant that tags the image without decoding the payload)
RevitImageUndecoded(x) ==
    IF x.kind = "exc" THEN Return(Str("Error: " \o x.text))
    ELSE IF x.status = 200
    THEN LET j == JsonLoads(x.text)
         IN  IF j.kind = "raise" THEN Return(Str("Error: " \o j.exc))
             ELSE LET d == ImageData(j.val)
                  IN  IF d.kind = "raise" THEN Return(Str("Error: " \o d.exc))
                      ELSE Return(Image(<<>>, "png"))
    ELSE Return(Str("Error: " \o ToString(x.status) \o " - " \o x.text))
\* lines 37-48 of src/main.py: what revit_image returns for exchange x
RevitImage(x) ==
    IF x.kind = "exc" THEN Return(Str("Error: " \o x.text))
    ELSE IF x.status = 200
    THEN LET j == JsonLoads(x.text)
         IN  IF j.kind = "raise" THEN Return(Str("Error: " \o j.exc))
             ELSE LET d == ImageData(j.val)
                  IN  IF d.kind = "raise" THEN Return(Str("Error: " \o d.exc))
                      ELSE LET bytes == B64Decode(d.val)
                           IN  IF bytes.kind = "raise"
                               THEN Return(Str("Error: " \o bytes.exc))
                               ELSE Return(Image(bytes.val.b, "png"))
    ELSE Return(Str("Error: " \o ToString(x.status) \o " - " \o x.text))

\* the tools src/tools/view_tools.py registers
ViewTools ==
    {"get_revit_view", "list_revit_views", "get_current_view_info",
     "get_current_view_elements"}

\* the code-execution operation of the tool-facing surface: one POST, formatted
PostTools == {"execute_revit_code"}

\* line 22 of src/main.py
BASE_URL == "http://localhost:48884/revit_mcp"

\* the view a get_revit_view call names
ViewName == "Level 1"

\* the endpoint of the code-execution operation
PostEndpoint == "/execute_code/"

\* the endpoint each tool calls
Endpoint(tl) ==
    CASE tl = "get_revit_view" -> "/get_view/" \o ViewName
      [] tl = "list_revit_views" -> "/list_views/"
      [] tl = "get_current_view_info" -> "/current_view_info/"
      [] tl = "get_current_view_elements" -> "/current_view_elements/"
      [] OTHER -> PostEndpoint

\* revit_post issues a POST; revit_get and revit_image a GET
Method(tl) == IF tl \in PostTools THEN "POST" ELSE "GET"

\* the tools that report progress on the Context before the request
InfoTools == {"get_current_view_info", "get_current_view_elements"}

InitGw ==
    /\ tool \in ViewTools \cup PostTools
    /\ hasCtx \in BOOLEAN
    /\ gpc = IF tool \in InfoTools /\ hasCtx THEN "info" ELSE "call"
    /\ requests = <<>>
    /\ exchange = NoExchange
    /\ helperRet = NoResult
    /\ toolRet = NoResult

\* `if ctx: await ctx.info(...)`
CtxInfo ==
    /\ gpc = "info"
    /\ gpc' = "call"
    /\ UNCHANGED <<tool, hasCtx, requests, exchange, helperRet, toolRet>>
    /\ UNCHANGED <<evars, fvars, mvars, pvars>>

\* client.get(url) / client.post(url, json=data): the request leaves
SendRequest ==
    /\ gpc = "call"
    /\ requests' = Append(requests, [method |-> Method(tool), url |-> BASE_URL \o Endpoint(tool)])
    /\ gpc' = "wait"
    /\ UNCHANGED <<tool, hasCtx, exchange, helperRet, toolRet>>
    /\ UNCHANGED <<evars, fvars, mvars, pvars>>

\* (a variant that issues the request again after a transport failure)
CompleteAndRetry ==
    /\ gpc = "wait"
    /\ \E x \in Exchanges :
         /\ exchange' = x
         /\ helperRet' = IF tool = "get_revit_view" THEN RevitImage(x) ELSE RevitCall(x)
         /\ IF x.kind = "exc" /\ Len(requests) < 2
            THEN gpc' = "call"
            ELSE gpc' = "got"
    /\ UNCHANGED <<tool, hasCtx, requests, toolRet>>
    /\ UNCHANGED <<evars, fvars, mvars, pvars>>

\* the awaited exchange ends and the helper returns
Complete ==
    /\ gpc = "wait"
    /\ \E x \in Exchanges :
         /\ exchange' = x
         /\ helperRet' = IF tool = "get_revit_view" THEN RevitImage(x) ELSE RevitCall(x)
    /\ gpc' = "got"
    /\ UNCHANGED <<tool, hasCtx, requests, toolRet>>
    /\ UNCHANGED <<evars, fvars, mvars, pvars>>

\* the tool returns: the image helper's value as it is, the others formatted
ToolReturn ==
    /\ gpc = "got"
    /\ toolRet' = IF tool = "get_revit_view" \/ helperRet.kind = "raise"
                  THEN helperRet
                  ELSE format_response(helperRet.val)
    /\ gpc' = "done"
    /\ UNCHANGED <<tool, hasCtx, requests, exchange, helperRet>>
    /\ UNCHANGED <<evars, fvars, mvars, pvars>>

NextGw ==
    \/ CtxInfo
    \/ SendRequest
    \/ Complete
    \/ ToolReturn

-----------------------------------------------------------------------------
(* A handler's reply on its way through the Gateway to the Formatter:       *)
(* routes.make_response, _revit_call, then format_response in the tool      *)

InitPipe ==
    /\ ppc = "handler"
    /\ hreply = NoReply
    /\ wire = NoExchange
    /\ received = NoResult
    /\ rendered = NoResult

\* a route handler answers the request
Handle ==
    /\ ppc = "handler"
    /\ hreply' \in HandlerReplies
    /\ ppc' = "wire"
    /\ UNCHANGED <<wire, received, rendered>>
    /\ UNCHANGED <<evars, fvars, gvars, mvars>>

\* the reply travels as an HTTP response, or the transport raises
Transmit ==
    /\ ppc = "wire"
    /\ \/ wire' = [kind |-> "resp", status |-> hreply.http, text |-> JsonText(hreply.data)]
       \/ wire' = [kind |-> "exc", status |-> 0, text |-> "All connection attempts failed"]
    /\ ppc' = "gateway"
    /\ UNCHANGED <<hreply, received, rendered>>
    /\ UNCHANGED <<evars, fvars, gvars, mvars>>

\* src/main.py lines 51-65: _revit_call turns the exchange into its result
Receive ==
    /\ ppc = "gateway"
    /\ received' = RevitCall(wire)
    /\ ppc' = "format"
    /\ UNCHANGED <<hreply, wire, rendered>>
    /\ UNCHANGED <<evars, fvars, gvars, mvars>>

\* the tool returns format_response(response)
Render ==
    /\ ppc = "format"
    /\ rendered' = IF received.kind = "return" THEN format_response(received.val)
                   ELSE received
    /\ ppc' = "done"
    /\ UNCHANGED <<hreply, wire, received>>
    /\ UNCHANGED <<evars, fvars, gvars, mvars>>

NextPipe ==
    \/ Handle
    \/ Transmit
    \/ Receive
    \/ Render

-----------------------------------------------------------------------------
(* The variables of a component that a specification does not run *)

IdleExec ==
    /\ epc = "off" /\ request = [body |-> "none", m |-> EmptyMap] /\ code = None
    /\ tx = "none" /\ calls = <<>> /\ stdout = "orig" /\ script = NoScript
    /\ excText = "" /\ ereply = NoReply /\ eexit = "off"

IdleFmt == fpc = "off" /\ response = None /\ formatted = NoResult

IdleGw ==
    /\ gpc = "off" /\ tool = "none" /\ hasCtx = FALSE /\ requests = <<>>
    /\ exchange = NoExchange /\ helperRet = NoResult /\ toolRet = NoResult

IdleMi ==
    /\ mpc = "off" /\ doc = NoDoc /\ failed = {} /\ project_info = Unset
    /\ element_counts = EmptyMap /\ total_elements = 0 /\ warnings = NoWarnings
    /\ levels_info = <<>> /\ rooms = NoRooms /\ views = NoViewCounts
    /\ linked_models = <<>> /\ mreply = NoReply

IdlePipe ==
    /\ ppc = "off" /\ hreply = NoReply /\ wire = NoExchange
    /\ received = NoResult /\ rendered = NoResult

InitExecOnly == InitExec /\ IdleFmt /\ IdleGw /\ IdleMi /\ IdlePipe
\* the execute_code handler serving one request
SpecExec == InitExecOnly /\ [][NextExec]_vars

InitFmtOnly == InitFmt /\ IdleExec /\ IdleGw /\ IdleMi /\ IdlePipe
\* the Formatter applied to one reply
SpecFmt == InitFmtOnly /\ [][NextFmt]_vars

InitGwOnly == InitGw /\ IdleExec /\ IdleFmt /\ IdleMi /\ IdlePipe
\* one tool invocation through the Gateway
SpecGw == InitGwOnly /\ [][NextGw]_vars

InitMiOnly == InitMi /\ IdleExec /\ IdleFmt /\ IdleGw /\ IdlePipe
\* the model_info handler serving one request
SpecMi == InitMiOnly /\ [][NextMi]_vars

InitPipeOnly == InitPipe /\ IdleExec /\ IdleFmt /\ IdleGw /\ IdleMi
\* one reply from handler to tool result
SpecPipe == InitPipeOnly /\ [][NextPipe]_vars

-----------------------------------------------------------------------------
(* Claims about the execute_code handler, checked under SpecExec *)

\* the handler has left: it returned a response or an exception propagated
HandlerLeft == epc = "done"

\* the data of the reply, as a mapping
ReplyData == ereply.data.m

\* the reply carries status `st`
ReplyStatusIs(st) == "status" \in DOMAIN ReplyData /\ ReplyData["status"] = Str(st)

\* C1: whatever the script and the transaction calls do, once the handler has
\* left, a transaction that was started has been committed or rolled back.
C1_StartedTransactionEnded ==
    HandlerLeft => (HasStarted(tx) => HasEnded(tx))

\* C2: whenever the script raised, the transaction is rolled back and never
\* committed, and the reply is HTTP 500 with status "error", the error text,
\* a non-empty traceback and the code that was attempted.
C2_ScriptErrorRolledBack ==
    (HandlerLeft /\ script.kind \in {"exception", "exit"}) =>
        /\ tx = "rolledback"
        /\ \A k \in 1..Len(calls) : calls[k] # "Commit"
        /\ eexit = "returned"
        /\ ereply.http = 500
        /\ ReplyStatusIs("error")
        /\ {"error", "traceback", "code_attempted"} \subseteq DOMAIN ReplyData
        /\ ReplyData["error"] = Str(script.err)
        /\ ReplyData["traceback"].t = "str" /\ ReplyData["traceback"].s # ""
        /\ ReplyData["code_attempted"] = code

\* the body of the request is no mapping, or its code is missing or empty
BadRequest ==
    \/ request.body # "map"
    \/ "code" \notin DOMAIN request.m
    \/ ~Truthy(request.m["code"])

\* C3: every request whose body is malformed or whose code is missing or
\* empty is answered with HTTP 400 and a mapping that has an error key.
C3_BadRequestIs400 ==
    (HandlerLeft /\ BadRequest) =>
        /\ eexit = "returned"
        /\ ereply.http = 400
        /\ ereply.data.t = "dict"
        /\ "error" \in DOMAIN ReplyData

\* C4: the calls run in the order Start, exec, Commit; a status "success"
\* reply is returned only after the transaction was committed, and its output
\* is the text the script emitted, or the sentinel when it emitted nothing.
C4_SuccessOnlyAfterCommit ==
    /\ Len(calls) >= 1 => calls[1] = "Start"
    /\ Len(calls) >= 2 => calls[2] = "exec"
    /\ Len(calls) >= 3 => calls[3] \in {"Commit", "RollBack"}
    /\ ReplyStatusIs("success") =>
         /\ calls = <<"Start", "exec", "Commit">>
         /\ tx = "committed"
         /\ script.kind = "ok"
         /\ ereply.http = 200
         /\ "output" \in DOMAIN ReplyData
         /\ ReplyData["output"] =
              Str(IF script.out = "" THEN "Code executed successfully (no output)"
                  ELSE script.out)

\* a script that printed nothing was committed and answered with the sentinel
C4_Witness ==
    /\ HandlerLeft
    /\ ReplyStatusIs("success")
    /\ script.out = ""
    /\ tx = "committed"
    /\ ReplyData["output"] = Str("Code executed successfully (no output)")

-----------------------------------------------------------------------------
(* Claims about the Gateway, checked under SpecGw *)

\* the helper has returned to the tool
HelperDone == gpc \in {"got", "done"}

\* the body of the exchange is the JSON text of value v
BodyIsJsonOf(v) == <<exchange.text, v>> \in WirePairs

\* C5: revit_get and revit_post return a value and never raise: the parsed
\* JSON body on status 200, "Error: <status> - <body>" on any other status,
\* "Error: <exception text>" when the transport fails or a 200 body is no JSON.
C5_HelperNeverRaises ==
    (HelperDone /\ tool # "get_revit_view") =>
        /\ helperRet.kind = "return"
        /\ exchange.kind = "exc" => helperRet.val = Str("Error: " \o exchange.text)
        /\ (exchange.kind = "resp" /\ exchange.status # 200) =>
             helperRet.val = Str("Error: " \o ToString(exchange.status) \o " - " \o exchange.text)
        /\ (exchange.kind = "resp" /\ exchange.status = 200) =>
             /\ \A v \in WireValues : BodyIsJsonOf(v) => helperRet.val = v
             /\ (\A v \in WireValues : ~BodyIsJsonOf(v)) =>
                  (helperRet.val.t = "str" /\ StartsWith(helperRet.val.s, "Error: "))
        /\ (exchange.kind = "resp" /\ exchange.status = 503 /\ exchange.text = "unavailable") =>
             helperRet.val = Str("Error: 503 - unavailable")

\* a GET answered 503 "unavailable" came back as the error string
C5_Witness ==
    /\ HelperDone
    /\ tool = "list_revit_views"
    /\ exchange = [kind |-> "resp", status |-> 503, text |-> "unavailable"]
    /\ helperRet = Return(Str("Error: 503 - unavailable"))

\* the exchange answered 200 with a JSON mapping whose image_data decodes
DecodableImage ==
    /\ exchange.kind = "resp"
    /\ exchange.status = 200
    /\ \E v \in WireValues :
         /\ BodyIsJsonOf(v)
         /\ v.t = "dict"
         /\ "image_data" \in DOMAIN v.m
         /\ B64Decode(v.m["image_data"]).kind = "return"

\* the bytes the image_data of the exchange decodes to
DecodedImageData ==
    LET v == CHOOSE v \in WireValues : BodyIsJsonOf(v)
    IN  B64Decode(v.m["image_data"]).val.b

\* C6: revit_image returns a PNG-tagged image of the decoded image_data when
\* the GET answers 200 with a JSON body holding a decodable image_data, and
\* in every other case a string beginning with "Error: "; it never raises.
C6_ImageOrErrorString ==
    (HelperDone /\ tool = "get_revit_view") =>
        /\ helperRet.kind = "return"
        /\ IF DecodableImage
           THEN helperRet.val = Image(DecodedImageData, "png")
           ELSE helperRet.val.t = "str" /\ StartsWith(helperRet.val.s, "Error: ")
        /\ (exchange = [kind |-> "resp", status |-> 200, text |-> "{\"image_data\": \"aGGa\"}"]) =>
             helperRet.val = Image(<<104, 97, 154>>, "png")

\* the image of "aGGa" was returned as its three bytes, tagged png
C6_Witness ==
    /\ HelperDone
    /\ tool = "get_revit_view"
    /\ exchange = [kind |-> "resp", status |-> 200, text |-> "{\"image_data\": \"aGGa\"}"]
    /\ helperRet = Return(Image(<<104, 97, 154>>, "png"))

\* C7: every view tool issues exactly one HTTP request, to its endpoint, and
\* returns only after that request completed or failed; no request is issued
\* again after a timeout or any other failure.
C7_ExactlyOneRequest ==
    tool \in ViewTools =>
        /\ Len(requests) <= 1
        /\ gpc \in {"wait", "got", "done"} =>
             requests = << [method |-> "GET", url |-> BASE_URL \o Endpoint(tool)] >>
        /\ gpc \in {"info", "call"} => requests = <<>>
        /\ toolRet # NoResult => (gpc = "done" /\ exchange # NoExchange /\ Len(requests) = 1)
        /\ gpc = "done" => toolRet # NoResult

\* a tool whose request failed in the transport returned after one request
C7_Witness ==
    /\ gpc = "done"
    /\ tool = "get_current_view_info"
    /\ exchange.kind = "exc"
    /\ Len(requests) = 1
    /\ toolRet = Return(Str("Error: " \o exchange.text))

-----------------------------------------------------------------------------
(* Claims about the Formatter, checked under SpecFmt *)

\* format_response has been applied to the reply
Formatted == fpc = "out"

\* C8: for every Reply the Formatter returns a string and raises nothing,
\* whatever keys are absent and whatever the present keys hold; a string
\* Reply comes back unchanged.
C8_FormatterTotal ==
    Formatted =>
        /\ formatted.kind = "return"
        /\ formatted.val.t = "str"
        /\ response.t = "str" => formatted.val = response

\* the result is the failure block
IsErrorBlock ==
    /\ formatted.kind = "return"
    /\ formatted.val.t = "str"
    /\ StartsWith(formatted.val.s, "=== ERROR DETAILS ===")

\* the result is a rendering, and not the failure block
IsSuccessRendering == formatted.kind = "return" /\ ~IsErrorBlock

\* the text of key k when it holds a string, "" when absent
TextOf(mm, k) == IF k \in DOMAIN mm /\ mm[k].t = "str" THEN mm[k].s ELSE ""

\* key k is absent or holds a string
StrOrAbsent(mm, k) == k \in DOMAIN mm => mm[k].t = "str"

\* the success condition on the status and health as the Reply holds them
SuccessAsWritten(mm) ==
    \/ TextOf(mm, "status") = "success"
    \/ TextOf(mm, "status") = "active" /\ TextOf(mm, "health") = "healthy"
    \/ /\ TextOf(mm, "status") = "active"
       /\ "revit_available" \in DOMAIN mm
       /\ Truthy(mm["revit_available"])

\* the success condition on the lowercased status and health
SuccessLowered(mm) ==
    \/ Lower(TextOf(mm, "status")) = "success"
    \/ Lower(TextOf(mm, "status")) = "active" /\ Lower(TextOf(mm, "health")) = "healthy"
    \/ /\ Lower(TextOf(mm, "status")) = "active"
       /\ "revit_available" \in DOMAIN mm
       /\ Truthy(mm["revit_available"])

\* C9 as stated: a mapping the Formatter renders is rendered as a success
\* exactly when status == "success", or status == "active" and health ==
\* "healthy", or status == "active" and revit_available is truthy; every
\* other one is rendered as a failure.
C9_SuccessExactlyAsWritten ==
    (Formatted /\ response.t = "dict" /\ formatted.kind = "return") =>
        /\ IsSuccessRendering <=> SuccessAsWritten(response.m)
        /\ IsErrorBlock <=> ~SuccessAsWritten(response.m)

\* C9 as amended: a mapping is rendered as a success exactly when status and
\* health, where present, are strings and the condition holds of their
\* lowercased texts; no other mapping is rendered as a success: it gets the
\* failure block, or format_response raises.
C9_SuccessExactlyLowered ==
    (Formatted /\ response.t = "dict") =>
        /\ IsSuccessRendering <=>
             /\ StrOrAbsent(response.m, "status")
             /\ StrOrAbsent(response.m, "health")
             /\ SuccessLowered(response.m)
        /\ ~IsSuccessRendering => (IsErrorBlock \/ formatted.kind = "raise")

\* a Reply with status "Success" was rendered as a success
C9_Witness ==
    /\ Formatted
    /\ response = Dict([status |-> Str("Success"), message |-> Str("done")])
    /\ formatted = Return(Str("done"))

\* C10: a mapping treated as a success is rendered from the first key present
\* in the order output, message, result, data; a Reply with status "success"
\* and an output key formats to exactly its output, whatever other keys it has.
C10_ContentPriority ==
    (Formatted /\ response.t = "dict") =>
        LET mm == response.m
        IN  /\ (SuccessLowered(mm) /\ formatted.kind = "return") =>
                 /\ "output" \in DOMAIN mm => formatted.val = mm["output"]
                 /\ ("output" \notin DOMAIN mm /\ "message" \in DOMAIN mm) =>
                      formatted.val = mm["message"]
                 /\ ({"output", "message"} \cap DOMAIN mm = {} /\ "result" \in DOMAIN mm) =>
                      formatted.val = Str(PyStr(mm["result"]))
                 /\ ({"output", "message", "result"} \cap DOMAIN mm = {} /\ "data" \in DOMAIN mm) =>
                      formatted.val = Str(PyStr(mm["data"]))
            /\ ("status" \in DOMAIN mm /\ mm["status"] = Str("success") /\ "output" \in DOMAIN mm) =>
                 formatted = Return(mm["output"])

\* x.endswith(p)
EndsWith(x, p) == Len(x) >= Len(p) /\ SubSeq(x, Len(x) - Len(p) + 1, Len(x)) = p

\* `line` is one of the lines of text x
HasLine(x, line) ==
    \/ x = line
    \/ StartsWith(x, line \o "\n")
    \/ EndsWith(x, "\n" \o line)
    \/ Contains(x, "\n" \o line \o "\n")

\* the content keys of a success reply
ContentKeys == {"output", "message", "result", "data"}

\* the reply has status "active" and health "healthy"
ActiveHealthy(mm) ==
    /\ "status" \in DOMAIN mm /\ mm["status"] = Str("active")
    /\ "health" \in DOMAIN mm /\ mm["health"] = Str("healthy")

\* the result is the status block with its Status and Health lines
IsActiveStatusBlock ==
    /\ formatted.kind = "return"
    /\ formatted.val.t = "str"
    /\ StartsWith(formatted.val.s, "=== REVIT STATUS ===")
    /\ HasLine(formatted.val.s, "Status: active")
    /\ HasLine(formatted.val.s, "Health: healthy")

\* C11 as stated: every mapping with status "active" and health "healthy"
\* formats to a text that starts with "=== REVIT STATUS ===" and has a
\* "Status: active" line and a "Health: healthy" line.
C11_ActiveHealthyIsStatusBlock ==
    (Formatted /\ response.t = "dict" /\ ActiveHealthy(response.m)) => IsActiveStatusBlock

\* C11 as amended: the same, for the mappings that hold none of the content
\* keys output, message, result, data (a content key is returned instead).
C11_ActiveHealthyNoContent ==
    (Formatted /\ response.t = "dict" /\ ActiveHealthy(response.m)) =>
        IF ContentKeys \cap DOMAIN response.m = {}
        THEN IsActiveStatusBlock
        ELSE ~IsActiveStatusBlock

\* an active, healthy reply with an API name was rendered as the status block
C11_Witness ==
    /\ Formatted
    /\ response = Dict([status |-> Str("active"), health |-> Str("healthy"),
                        api_name |-> Str("revit_mcp")])
    /\ formatted =
         Return(Str("=== REVIT STATUS ===\nStatus: active\nHealth: healthy\nAPI: revit_mcp"))

\* the mapping is one format_response treats as a failure
TreatedAsFailure(mm) ==
    /\ StrOrAbsent(mm, "status")
    /\ StrOrAbsent(mm, "health")
    /\ ~SuccessLowered(mm)

\* the line of a present debug field
DebugLine(mm, f) ==
    CASE f = "code_attempted" -> "Code Attempted: " \o PyStr(mm[f])
      [] f = "endpoint" -> "Endpoint: " \o PyStr(mm[f])
      [] f = "request_data" -> "Request Data: " \o PyStr(mm[f])
      [] OTHER -> "Response Code: " \o PyStr(mm[f])

\* the failure block the claim lays out, part by part
ClaimedErrorParts(mm) ==
    LET details == Get(mm, "details", Str(""))
        tb == Get(mm, "traceback", Str(""))
        debug == SelectSeq(<<"code_attempted", "endpoint", "request_data", "response_code">>,
                           LAMBDA f : f \in DOMAIN mm)
        rest == Sorted(DOMAIN mm \ {"status", "error", "details", "traceback",
                                    "code_attempted", "endpoint", "request_data",
                                    "response_code"})
    IN  << "=== ERROR DETAILS ===",
           "Status: " \o PyStr(Get(mm, "status", Str("unknown"))),
           "Error: " \o PyStr(Get(mm, "error", Str("Unknown error occurred"))) >>
        \o (IF Truthy(details) THEN << "Details: " \o PyStr(details) >> ELSE <<>>)
        \o (IF Truthy(tb) THEN << "\n=== TRACEBACK ===", PyStr(tb) >> ELSE <<>>)
        \o [k \in 1..Len(debug) |-> DebugLine(mm, debug[k])]
        \o (IF rest # <<>>
            THEN << "\n=== ADDITIONAL RESPONSE DATA ===" >>
                 \o [k \in 1..Len(rest) |-> rest[k] \o ": " \o PyStr(mm[rest[k]])]
            ELSE <<>>)

\* C12: every mapping treated as a failure formats to the error block: the
\* heading, Status, Error, Details if non-empty, the traceback section if
\* non-empty, the present debug fields in their order, then every remaining
\* key, sorted, under the additional-data heading.
C12_ErrorBlockLayout ==
    (Formatted /\ response.t = "dict" /\ TreatedAsFailure(response.m)) =>
        /\ formatted = Return(Str(JoinStr("\n", ClaimedErrorParts(response.m))))
        /\ response.m = [status |-> Str("error"), error |-> Str("boom"), traceback |-> Str("tb")] =>
             /\ Contains(formatted.val.s, "Error: boom")
             /\ Contains(formatted.val.s, "=== TRACEBACK ===\ntb")

\* C12 on the replies for which format_response returns
C12_ErrorBlockLayoutWhenReturned ==
    (Formatted /\ response.t = "dict" /\ TreatedAsFailure(response.m)
       /\ formatted.kind = "return") =>
        formatted = Return(Str(JoinStr("\n", ClaimedErrorParts(response.m))))

\* the status is a string that is neither success nor active when lowercased
UnknownStatus(mm) ==
    /\ "status" \in DOMAIN mm
    /\ mm["status"].t = "str"
    /\ Lower(mm["status"].s) \notin {"success", "active", "error"}

\* the result is the reply pretty-printed as indented JSON
IsJsonDump ==
    /\ formatted.kind = "return"
    /\ formatted.val.t = "str"
    /\ StartsWith(formatted.val.s, "{")
    /\ formatted.val.s = JsonDumps(response, "")

-----------------------------------------------------------------------------
(* Claims about sys.stdout in the execute_code handler, checked under SpecExec *)

\* the request is a mapping whose code is missing or empty
MissingCode ==
    /\ request.body = "map"
    /\ ~Truthy(Get(request.m, "code", Str("")))

\* C16: once the handler has left, on whichever path (request rejected,
\* t.Start failing, script succeeding, script raising, Commit raising),
\* sys.stdout is the stream it was on entry; and a request rejected for
\* missing code started no transaction and ran no script.
C16_StdoutUnchanged ==
    HandlerLeft =>
        /\ stdout = "orig"
        /\ MissingCode => (calls = <<>> /\ tx = "none" /\ script = NoScript)

\* C16 on the paths where the handler returns a response
C16_StdoutUnchangedWhenReturned ==
    (HandlerLeft /\ eexit = "returned") =>
        /\ stdout = "orig"
        /\ MissingCode => (calls = <<>> /\ tx = "none" /\ script = NoScript)

-----------------------------------------------------------------------------
(* Claims about the model_info handler, checked under SpecMi *)

\* the handler has returned its response
InfoReturned == mpc = "done"

\* the items of the reply, and of its nested mappings
InfoData == mreply.data.m
InfoPart(k) == InfoData[k].m

\* the reply is the HTTP 200 reply with status "success"
InfoSuccess ==
    /\ mreply.http = 200
    /\ mreply.data.t = "dict"
    /\ "status" \in DOMAIN InfoData
    /\ InfoData["status"] = Str("success")

\* the failure points of the document that belong to the levels, rooms, links
LevelPoints == {"Levels"} \cup UNION {{"Name:" \o ToString(k), "Elevation:" \o ToString(k)} : k \in 1..doc.n}
RoomPoints(k) == {"LookupParameter:" \o ToString(k), "LevelId:" \o ToString(k), "Area:" \o ToString(k)}
AllRoomPoints == {"Rooms"} \cup UNION {RoomPoints(k) : k \in 1..doc.n}
LinkPoints == {"Links"} \cup {"Link:" \o ToString(k) : k \in 1..doc.n}

\* the rooms and the links listed in the reply
ListedRooms == Items(InfoPart("spatial_organization")["rooms"])
ListedLinks == Items(InfoPart("linked_models")["models"])

\* `entry` is one of the items of the sequence
Listed(entry, items) == \E j \in 1..Len(items) : items[j] = entry

\* every sub-result is the value the document gives when nothing raises, or
\* its default when its own query raised
SubResultsDegradeAlone ==
    /\ InfoData["project_info"] =
         IF {"RevitProjectInfo", "Title"} \cap failed = {}
         THEN Dict([name |-> Str("Tower A"), number |-> Str("17"),
                    client |-> Str("Unnamed"), file_name |-> Str("Tower.rvt")])
         ELSE Dict([name |-> Str("Tower.rvt"), number |-> Str("Not Set"),
                    client |-> Str("Not Set"), file_name |-> Str("Tower.rvt")])
    /\ \A k \in 1..Len(ElementCategories) :
         InfoPart("element_summary")["by_category"].m[ElementCategories[k]] =
           IF ("Count:" \o ElementCategories[k]) \in failed THEN Num(0) ELSE Num(k)
    /\ InfoPart("model_health")["total_warnings"] =
         IF {"GetWarnings", "GetSeverity"} \cap failed = {} THEN Num(WarningsCount) ELSE Num(0)
    /\ InfoPart("model_health")["critical_warnings"] =
         IF {"GetWarnings", "GetSeverity"} \cap failed = {} THEN Num(CriticalCount) ELSE Num(0)
    /\ LevelPoints \cap failed = {} =>
         InfoPart("spatial_organization")["levels"] = List(LevelsInfo(doc.n, {}))
    /\ "Levels" \in failed => InfoPart("spatial_organization")["levels"] = List(<<>>)
    /\ AllRoomPoints \cap failed = {} =>
         /\ InfoPart("spatial_organization")["rooms"] = List(Rooms(doc.n, {}).rooms_info)
         /\ InfoPart("model_health")["unplaced_rooms"] = Num(Rooms(doc.n, {}).unplaced_rooms)
    /\ "Rooms" \in failed =>
         /\ InfoPart("spatial_organization")["rooms"] = List(<<>>)
         /\ InfoPart("model_health")["unplaced_rooms"] = Num(0)
    /\ "Rooms" \notin failed =>
         \A k \in 1..doc.n :
           RoomPoints(k) \cap failed = {} =>
             Listed(Rooms(doc.n, {}).rooms_info[k], ListedRooms)
    /\ InfoPart("documentation")["sheets_count"] =
         IF "Views" \in failed THEN Num(0) ELSE Num(ViewCounts.sheets_count)
    /\ InfoPart("documentation")["total_views"] =
         IF "Views" \in failed THEN Num(0) ELSE Num(ViewCounts.views_count)
    /\ LinkPoints \cap failed = {} =>
         InfoPart("linked_models")["models"] = List(LinkedModels(doc.n, {}))
    /\ "Links" \in failed => InfoPart("linked_models")["models"] = List(<<>>)
    /\ "Links" \notin failed =>
         \A k \in 1..doc.n :
           ("Link:" \o ToString(k)) \notin failed =>
             Listed(LinkedModels(doc.n, {})[k], ListedLinks)

\* C14: with an active document, when a single sub-query fails (project
\* info, one category's count, warnings, levels, rooms or one room,
\* views/sheets, linked models or one link) the reply is still the status
\* "success" reply, the failing sub-result holds its default and every other
\* sub-result holds its value.
C14_SingleFailureDegradesAlone ==
    (InfoReturned /\ doc.present /\ Cardinality(failed) <= 1) =>
        /\ InfoSuccess
        /\ SubResultsDegradeAlone

\* C14 for the requests during which doc.Title can be read, whatever else fails
C14_DegradesAloneWhenTitleReadable ==
    (InfoReturned /\ doc.present /\ "Title" \notin failed) =>
        /\ InfoSuccess
        /\ SubResultsDegradeAlone

RECURSIVE SumValues(_, _)
\* the sum of the numbers a mapping holds under `keys`
SumValues(mm, keys) ==
    IF keys = {} THEN 0
    ELSE LET k == CHOOSE k \in keys : TRUE
         IN  mm[k].i + SumValues(mm, keys \ {k})

\* C17: in every status "success" reply of model_info, whichever sub-queries
\* failed, total_elements is the sum of the by_category counts, room_count
\* is the number of listed rooms, linked_models.count the number of listed
\* links, unplaced_rooms the number of listed rooms whose is_placed is
\* false, and a listed room has an area key exactly when it is placed.
C17_AggregatesMatchLists ==
    (InfoReturned /\ InfoSuccess) =>
        /\ InfoPart("element_summary")["total_elements"] =
             Num(SumValues(InfoPart("element_summary")["by_category"].m,
                           DOMAIN InfoPart("element_summary")["by_category"].m))
        /\ InfoPart("spatial_organization")["room_count"] = Num(Len(ListedRooms))
        /\ InfoPart("linked_models")["count"] = Num(Len(ListedLinks))
        /\ InfoPart("model_health")["unplaced_rooms"] =
             Num(Cardinality({j \in 1..Len(ListedRooms) :
                                ListedRooms[j].m["is_placed"] = Bool(FALSE)}))
        /\ \A j \in 1..Len(ListedRooms) :
             "area" \in DOMAIN ListedRooms[j].m <=> ListedRooms[j].m["is_placed"] = Bool(TRUE)

\* a reply after one count and one link failed: a placed room with its area
\* and an unplaced room without are listed
C17_Witness ==
    /\ InfoReturned /\ InfoSuccess
    /\ failed = {"Count:Walls", "Link:1"}
    /\ InfoPart("element_summary")["total_elements"] = Num(90)
    /\ InfoPart("spatial_organization")["room_count"] = Num(2)
    /\ InfoPart("model_health")["unplaced_rooms"] = Num(1)
    /\ InfoPart("linked_models")["count"] = Num(1)
    /\ ListedRooms[1].m["area"] = Float("12.35")
    /\ "area" \notin DOMAIN ListedRooms[2].m

-----------------------------------------------------------------------------
(* Claims about the way of a reply to the Formatter, checked under SpecPipe *)

\* the tool has returned the formatted text
Rendered == ppc = "done"

\* the Gateway saw an HTTP response whose status is not 200
Non200 == wire.kind = "resp" /\ wire.status # 200

\* the tool's result is the "=== ERROR DETAILS ===" block
RenderedErrorBlock ==
    /\ rendered.kind = "return"
    /\ rendered.val.t = "str"
    /\ StartsWith(rendered.val.s, "=== ERROR DETAILS ===")

\* C15: every handler reply with a non-200 status (500, 400, 503) reaches
\* the Formatter as a string and the tool returns exactly
\* "Error: <status> - <body>"; the "=== ERROR DETAILS ===" block is produced
\* only for a mapping that arrived with HTTP 200.
C15_Non200IsErrorString ==
    Rendered =>
        /\ Non200 =>
             /\ hreply.http \in {400, 500, 503}
             /\ received.kind = "return" /\ received.val.t = "str"
             /\ rendered = Return(Str("Error: " \o ToString(hreply.http) \o " - "
                                      \o JsonText(hreply.data)))
        /\ RenderedErrorBlock =>
             /\ wire.kind = "resp" /\ wire.status = 200
             /\ received.val.t = "dict"

\* the error reply of a raising script came out as the one-line error string
C15_Witness ==
    /\ Rendered
    /\ hreply = ErrorReply("boom", Str("raise Exception('boom')"))
    /\ wire.kind = "resp" /\ wire.status = 500
    /\ rendered.kind = "return"
    /\ StartsWith(rendered.val.s,
                  "Error: 500 - {\"code_attempted\": \"raise Exception('boom')\", \"error\": \"boom\", \"status\": \"error\", \"traceback\": ")

=============================================================================
